---- MODULE Spec2Model ----
(***************************************************************************)
(* Text Overlap Analyzer (src/app.py).                                     *)
(*                                                                         *)
(* calculate_overlaps_detailed(reference_text, target_text) annotates two  *)
(* texts with the loaded pipeline `nlp` and computes five overlap metrics; *)
(* the Streamlit script around it keeps the two text boxes and the last    *)
(* analysis in st.session_state.                                           *)
(*                                                                         *)
(* A Python str is a tuple of code points, so that str.lower() and the     *)
(* order sorted() uses are computed and not assumed.                       *)
(***************************************************************************)
EXTENDS Integers, Sequences, FiniteSets, TLC

VARIABLES
    session_state,   \* st.session_state: key -> value, keys appear as they are set
    page,            \* what the last script run rendered
    event,           \* the interaction that caused the last script run
    call_ref,        \* reference_text of a direct call
    call_target,     \* target_text of a direct call
    pc,              \* "ready" before that call runs, "done" after
    nlp_calls,       \* the arguments nlp was invoked with during the call, in order
    raised,          \* the exception the call propagated, "" when it returned
    ret              \* <<results>> when the call returned, <<>> otherwise

vars == <<session_state, page, event, call_ref, call_target, pc, nlp_calls, raised, ret>>

----------------------------------------------------------------------------
(* Bounds *)

\* longest text, in tokens
MaxTokens == 2

----------------------------------------------------------------------------
(* Python strings *)

\* str.lower() on one ASCII code point: 'A'..'Z' map to 'a'..'z'
LowerChar(c) == IF c >= 65 /\ c <= 90 THEN c + 32 ELSE c

\* faulty variant: the case is kept
IdentityCase(s) == s

\* str.lower()
Lower(s) == [i \in DOMAIN s |-> LowerChar(s[i])]

\* s < t for Python str: code point order, a proper prefix is smaller
StrLess(s, t) ==
    \E i \in 1..(Len(t)) :
        /\ \A j \in 1..(i - 1) : j <= Len(s) /\ s[j] = t[j]
        /\ i - 1 <= Len(s)
        /\ (i > Len(s) \/ s[i] < t[i])

\* faulty variant of the sort order: descending
StrGreater(s, t) == StrLess(t, s)

\* the comparison sorted() applies to two items
SortBefore(s, t) == StrLess(s, t)

\* sorted(list(S)) for a set S of str
RECURSIVE Sorted(_)
Sorted(S) ==
    IF S = {} THEN <<>>
    ELSE LET m == CHOOSE x \in S : \A y \in S : x = y \/ SortBefore(x, y)
         IN  <<m>> \o Sorted(S \ {m})

\* the items of a list
Range(seq) == {seq[i] : i \in DOMAIN seq}

RECURSIVE GCD(_, _)
GCD(a, b) == IF b = 0 THEN a ELSE GCD(b, a % b)

\* the float a / b of two small naturals, kept as the fraction in lowest terms
Div(a, b) == LET g == GCD(a, b) IN <<a \div g, b \div g>>

\* the int 0, equal to the float 0.0
Zero == <<0, 1>>
One == <<1, 1>>

----------------------------------------------------------------------------
(* The annotator: what the loaded pipeline yields for a text *)

\* token attributes the pipeline assigns to the words it is given here:
\*   "Ab" (lemma "A", NOUN), "ab" (lemma "b", DET), "b" (lemma "b", VERB),
\*   "." (PUNCT, punctuation) and "%" (tagged NOUN, flagged punctuation)
Lexicon ==
    << [text |-> <<65, 98>>, lemma_ |-> <<65>>, pos_ |-> "NOUN",  is_punct |-> FALSE],
       [text |-> <<97, 98>>, lemma_ |-> <<98>>, pos_ |-> "DET",   is_punct |-> FALSE],
       [text |-> <<98>>,     lemma_ |-> <<98>>, pos_ |-> "VERB",  is_punct |-> FALSE],
       [text |-> <<46>>,     lemma_ |-> <<46>>, pos_ |-> "PUNCT", is_punct |-> TRUE],
       [text |-> <<37>>,     lemma_ |-> <<37>>, pos_ |-> "NOUN",  is_punct |-> TRUE] >>

Words == DOMAIN Lexicon

\* non-overlapping noun-phrase spans <<first, last>> over n tokens, in text order
RECURSIVE SpanSeqs(_, _)
SpanSeqs(from, n) ==
    {<<>>} \cup
    UNION { { <<p>> \o rest : rest \in SpanSeqs(p[2] + 1, n) } :
            p \in {q \in (from..n) \X (from..n) : q[1] <= q[2]} }

\* a str argument: its words and the noun phrases the pipeline finds in it
StrOf(words, nps) == [kind |-> "str", words |-> words, nps |-> nps]

\* a noun chunk is a run of determiners and nouns that ends at its head noun
NounPhrase(words, nps) ==
    \A k \in DOMAIN nps :
        /\ Lexicon[words[nps[k][2]]].pos_ = "NOUN"
        /\ \A i \in nps[k][1]..nps[k][2] : Lexicon[words[i]].pos_ \in {"DET", "NOUN"}

Texts ==
    UNION { { t \in { StrOf(w, nps) : w \in [1..n -> Words], nps \in SpanSeqs(1, n) } :
                NounPhrase(t.words, t.nps) } : n \in 0..MaxTokens }

EmptyText == StrOf(<<>>, <<>>)

\* a non-str argument
NoneValue == [kind |-> "NoneType"]

Arguments == Texts \cup {NoneValue}

IsStr(x) == x.kind = "str"

\* Span.text: the tokens of the span joined by single spaces
RECURSIVE SpanText(_, _, _)
SpanText(tokens, i, j) ==
    IF i = j THEN tokens[i].text
    ELSE tokens[i].text \o <<32>> \o SpanText(tokens, i + 1, j)

\* nlp(text): the Doc
nlp(text) ==
    LET tokens == [i \in DOMAIN text.words |-> Lexicon[text.words[i]]]
    IN  [ tokens      |-> tokens,
          noun_chunks |-> [k \in DOMAIN text.nps |->
                              [text |-> SpanText(tokens, text.nps[k][1], text.nps[k][2])]] ]

----------------------------------------------------------------------------
(* calculate_overlaps_detailed *)

content_pos == {"NOUN", "VERB", "ADJ", "ADV"}

\* set([token.text.lower() for token in doc if not token.is_punct])
tokens_of(doc) ==
    {Lower(doc.tokens[i].text) : i \in {j \in DOMAIN doc.tokens : ~doc.tokens[j].is_punct}}

\* set([token.lemma_.lower() for token in doc if not token.is_punct])
lemmas_of(doc) ==
    {Lower(doc.tokens[i].lemma_) : i \in {j \in DOMAIN doc.tokens : ~doc.tokens[j].is_punct}}

\* set([token.text.lower() for token in doc if token.pos_ in content_pos])
content_of(doc) ==
    {Lower(doc.tokens[i].text) :
        i \in {j \in DOMAIN doc.tokens : doc.tokens[j].pos_ \in content_pos}}

\* set([token.lemma_.lower() for token in doc if token.pos_ in content_pos])
content_lemmas_of(doc) ==
    {Lower(doc.tokens[i].lemma_) :
        i \in {j \in DOMAIN doc.tokens : doc.tokens[j].pos_ \in content_pos}}

\* set([chunk.text.lower() for chunk in doc.noun_chunks])
chunks_of(doc) == {Lower(doc.noun_chunks[k].text) : k \in DOMAIN doc.noun_chunks}

\* faulty variants of the score: divided by the reference set, by the sum of
\* the two sizes, by the larger set, and with 1 for an empty union
ScoreOverRef(ref_items, target_items) ==
    IF ref_items # {}
    THEN Div(Cardinality(ref_items \cap target_items), Cardinality(ref_items))
    ELSE Zero
ScoreOverSum(ref_items, target_items) ==
    IF (ref_items \cup target_items) # {}
    THEN Div(Cardinality(ref_items \cap target_items),
             Cardinality(ref_items) + Cardinality(target_items))
    ELSE Zero
ScoreOverLarger(ref_items, target_items) ==
    IF (ref_items \cup target_items) # {}
    THEN Div(Cardinality(ref_items \cap target_items),
             IF Cardinality(ref_items) >= Cardinality(target_items)
             THEN Cardinality(ref_items) ELSE Cardinality(target_items))
    ELSE Zero
ScoreEmptyIsOne(ref_items, target_items) ==
    IF (ref_items \cup target_items) # {}
    THEN Div(Cardinality(ref_items \cap target_items),
             Cardinality(ref_items \cup target_items))
    ELSE One

\* len(overlap) / len(ref | target) if (ref | target) else 0
Score(ref_items, target_items) ==
    IF (ref_items \cup target_items) # {}
    THEN Div(Cardinality(ref_items \cap target_items),
             Cardinality(ref_items \cup target_items))
    ELSE Zero

\* faulty variant: ref_only keeps the shared items
ResultKeepsShared(ref_items, target_items) ==
    [ score       |-> Score(ref_items, target_items),
      overlapping |-> Sorted(ref_items \cap target_items),
      ref_only    |-> Sorted(ref_items),
      target_only |-> Sorted(target_items \ ref_items) ]

\* the dict one metric block stores in results[key]
Result(ref_items, target_items) ==
    LET overlap == ref_items \cap target_items
    IN  [ score       |-> Score(ref_items, target_items),
          overlapping |-> Sorted(overlap),
          ref_only    |-> Sorted(ref_items \ target_items),
          target_only |-> Sorted(target_items \ ref_items) ]

MetricKeys ==
    {"total_overlap", "lemma_overlap", "content_overlap",
     "lemma_content_overlap", "multiword_overlap"}

\* the results dict built from the two Docs
Overlaps(ref_doc, target_doc) ==
    [ total_overlap         |-> Result(tokens_of(ref_doc), tokens_of(target_doc)),
      lemma_overlap         |-> Result(lemmas_of(ref_doc), lemmas_of(target_doc)),
      content_overlap       |-> Result(content_of(ref_doc), content_of(target_doc)),
      lemma_content_overlap |-> Result(content_lemmas_of(ref_doc),
                                       content_lemmas_of(target_doc)),
      multiword_overlap     |-> Result(chunks_of(ref_doc), chunks_of(target_doc)) ]

\* The outcome of one call. The function validates nothing: its first
\* statement hands reference_text to nlp, its second target_text, and an
\* argument nlp cannot take makes nlp raise its own ValueError.
calculate_overlaps_detailed(reference_text, target_text) ==
    IF ~IsStr(reference_text)
    THEN [nlp_calls |-> <<reference_text>>, raised |-> "ValueError", ret |-> <<>>]
    ELSE IF ~IsStr(target_text)
    THEN [nlp_calls |-> <<reference_text, target_text>>,
          raised |-> "ValueError", ret |-> <<>>]
    ELSE [nlp_calls |-> <<reference_text, target_text>>,
          raised |-> "",
          ret |-> <<Overlaps(nlp(reference_text), nlp(target_text))>>]

----------------------------------------------------------------------------
(* The script: text boxes, buttons, results and CSV export *)

\* what can be typed into a text box
UITexts == {t \in Texts : Len(t.words) <= 1}

\* the two texts the Load Example button fills in
ExampleReference == StrOf(<<1, 3>>, <<<<1, 1>>>>)
ExampleTarget == StrOf(<<2, 1>>, <<<<1, 2>>>>)

\* bool(a_str)
Truthy(text) == text.words # <<>>

\* create_csv_data: the summary row's two texts (none reaches 100 characters,
\* so neither is cut) and the rows made from results
create_csv_data(reference_text, target_text, results) ==
    [ reference_text |-> reference_text,
      target_text    |-> target_text,
      rows           |-> results ]

\* the rest of a script run: the results section and the CSV export
Render(ss, warning) ==
    IF "results" \in DOMAIN ss
    THEN [ warning |-> warning,
           shown   |-> <<ss["results"]>>,
           csv     |-> <<create_csv_data(ss["reference"], ss["target"], ss["results"])>> ]
    ELSE [ warning |-> warning, shown |-> <<>>, csv |-> <<>> ]

\* session_state with key := value
Assign(ss, key, value) ==
    [k \in DOMAIN ss \cup {key} |-> IF k = key THEN value ELSE ss[k]]

----------------------------------------------------------------------------
(* State machine *)

NoCall ==
    /\ call_ref = EmptyText
    /\ call_target = EmptyText
    /\ pc = "idle"
    /\ nlp_calls = <<>>
    /\ raised = ""
    /\ ret = <<>>

\* the script has run once: both text boxes are empty, nothing is stored
InitSession ==
    /\ session_state = [k \in {"reference_input", "target_input"} |-> EmptyText]
    /\ page = Render(session_state, FALSE)
    /\ event = "start"

Init == InitSession /\ NoCall

\* the user changes the reference text box; the script reruns, no button pressed
EditReference(text) ==
    /\ text # session_state["reference_input"]
    /\ session_state' = Assign(session_state, "reference_input", text)
    /\ page' = Render(session_state', FALSE)
    /\ event' = "edit_reference"
    /\ UNCHANGED <<call_ref, call_target, pc, nlp_calls, raised, ret>>

\* the user changes the target text box; the script reruns, no button pressed
EditTarget(text) ==
    /\ text # session_state["target_input"]
    /\ session_state' = Assign(session_state, "target_input", text)
    /\ page' = Render(session_state', FALSE)
    /\ event' = "edit_target"
    /\ UNCHANGED <<call_ref, call_target, pc, nlp_calls, raised, ret>>

\* Load Example: both text boxes are set, then st.rerun()
LoadExample ==
    /\ session_state' =
           Assign(Assign(session_state, "reference_input", ExampleReference),
                  "target_input", ExampleTarget)
    /\ page' = Render(session_state', FALSE)
    /\ event' = "load_example"
    /\ UNCHANGED <<call_ref, call_target, pc, nlp_calls, raised, ret>>

\* faulty variant: Analyze Overlap stores results without the two texts they were computed from
AnalyzeOverlapResultsOnly ==
    LET reference == session_state["reference_input"]
        target    == session_state["target_input"]
        bothTexts == Truthy(reference) /\ Truthy(target)
        results   == calculate_overlaps_detailed(reference, target).ret[1]
    IN  /\ session_state' =
               IF bothTexts
               THEN Assign(Assign(Assign(session_state, "results", results),
                                  "reference",
                                  IF "reference" \in DOMAIN session_state
                                  THEN session_state["reference"] ELSE reference),
                           "target",
                           IF "target" \in DOMAIN session_state
                           THEN session_state["target"] ELSE target)
               ELSE session_state
        /\ page' = Render(session_state', ~bothTexts)
        /\ event' = "analyze"
        /\ UNCHANGED <<call_ref, call_target, pc, nlp_calls, raised, ret>>

\* Analyze Overlap: with both boxes filled, the analysis and the pair it was
\* made from are stored; otherwise a warning is shown
AnalyzeOverlap ==
    LET reference == session_state["reference_input"]
        target    == session_state["target_input"]
        bothTexts == Truthy(reference) /\ Truthy(target)
        results   == calculate_overlaps_detailed(reference, target).ret[1]
    IN  /\ session_state' =
               IF bothTexts
               THEN Assign(Assign(Assign(session_state, "results", results),
                                  "reference", reference),
                           "target", target)
               ELSE session_state
        /\ page' = Render(session_state', ~bothTexts)
        /\ event' = "analyze"
        /\ UNCHANGED <<call_ref, call_target, pc, nlp_calls, raised, ret>>

Next ==
    \/ \E text \in UITexts : EditReference(text)
    \/ \E text \in UITexts : EditTarget(text)
    \/ LoadExample
    \/ AnalyzeOverlap

Spec == Init /\ [][Next]_vars

\* a caller is about to invoke calculate_overlaps_detailed(call_ref, call_target)
InitCall ==
    /\ InitSession
    /\ call_ref \in Arguments
    /\ call_target \in Arguments
    /\ pc = "ready"
    /\ nlp_calls = <<>>
    /\ raised = ""
    /\ ret = <<>>

\* calculate_overlaps_detailed(call_ref, call_target) runs to its end
Call ==
    LET out == calculate_overlaps_detailed(call_ref, call_target)
    IN  /\ pc = "ready"
        /\ pc' = "done"
        /\ nlp_calls' = out.nlp_calls
        /\ raised' = out.raised
        /\ ret' = out.ret
        /\ UNCHANGED <<session_state, page, event, call_ref, call_target>>

NextCall == Call

SpecCall == InitCall /\ [][NextCall]_vars

----------------------------------------------------------------------------
(* Claims about calculate_overlaps_detailed, under SpecCall *)

\* the call returned a results dict
Returned == pc = "done" /\ ret # <<>>

\* the reference and target item-sets of a metric for the call's two texts
RefItems(key) ==
    LET doc == nlp(call_ref)
    IN  CASE key = "total_overlap"         -> tokens_of(doc)
          [] key = "lemma_overlap"         -> lemmas_of(doc)
          [] key = "content_overlap"       -> content_of(doc)
          [] key = "lemma_content_overlap" -> content_lemmas_of(doc)
          [] key = "multiword_overlap"     -> chunks_of(doc)

TargetItems(key) ==
    LET doc == nlp(call_target)
    IN  CASE key = "total_overlap"         -> tokens_of(doc)
          [] key = "lemma_overlap"         -> lemmas_of(doc)
          [] key = "content_overlap"       -> content_of(doc)
          [] key = "lemma_content_overlap" -> content_lemmas_of(doc)
          [] key = "multiword_overlap"     -> chunks_of(doc)

\* C1: for every metric the three result lists are pairwise disjoint, together
\* they hold exactly R \cup T, overlapping with ref_only holds exactly R and
\* overlapping with target_only holds exactly T.
C1_Partition ==
    Returned =>
        \A key \in MetricKeys :
            LET O  == Range(ret[1][key].overlapping)
                RO == Range(ret[1][key].ref_only)
                TO == Range(ret[1][key].target_only)
                R  == RefItems(key)
                T  == TargetItems(key)
            IN  /\ O \cap RO = {}
                /\ O \cap TO = {}
                /\ RO \cap TO = {}
                /\ O \cup RO \cup TO = R \cup T
                /\ O \cup RO = R
                /\ O \cup TO = T

\* a metric with shared, reference-only and target-only items all present
C1_Witness ==
    /\ Returned
    /\ \E key \in MetricKeys :
           /\ ret[1][key].overlapping # <<>>
           /\ ret[1][key].ref_only # <<>>
           /\ ret[1][key].target_only # <<>>

\* C2: the score is |R \cap T| / |R \cup T| when R \cup T is non-empty and 0
\* when it is empty; it lies between 0 and 1.
C2_Score ==
    Returned =>
        \A key \in MetricKeys :
            LET score == ret[1][key].score
                R     == RefItems(key)
                T     == TargetItems(key)
            IN  /\ score[2] > 0
                /\ 0 <= score[1] /\ score[1] <= score[2]
                /\ (R \cup T # {}) =>
                       score[1] * Cardinality(R \cup T) = score[2] * Cardinality(R \cap T)
                /\ (R \cup T = {}) => score[1] = 0

\* a score strictly between 0 and 1 beside a metric with no item at all
C2_Witness ==
    /\ Returned
    /\ \E key \in MetricKeys :
           0 < ret[1][key].score[1] /\ ret[1][key].score[1] < ret[1][key].score[2]
    /\ \E key \in MetricKeys : RefItems(key) \cup TargetItems(key) = {}

\* C3: for every metric the score of (A, B) equals the score of (B, A).
C3_Symmetric ==
    Returned =>
        LET swapped == calculate_overlaps_detailed(call_target, call_ref).ret[1]
        IN  \A key \in MetricKeys : ret[1][key].score = swapped[key].score

\* two texts whose item-sets differ in size and partly overlap
C3_Witness ==
    /\ Returned
    /\ \E key \in MetricKeys :
           /\ Cardinality(RefItems(key)) # Cardinality(TargetItems(key))
           /\ 0 < ret[1][key].score[1]
           /\ ret[1][key].score[1] < ret[1][key].score[2]

\* C4: a text analysed against itself scores 1 on every metric it has an item
\* for, with nothing reference-only or target-only, and 0 on the others.
C4_SelfOverlap ==
    (Returned /\ call_ref = call_target) =>
        \A key \in MetricKeys :
            /\ (RefItems(key) # {}) =>
                   /\ ret[1][key].score = One
                   /\ ret[1][key].ref_only = <<>>
                   /\ ret[1][key].target_only = <<>>
            /\ (RefItems(key) = {}) => ret[1][key].score = Zero

\* a text against itself with items for one metric and none for another
C4_Witness ==
    /\ Returned
    /\ call_ref = call_target
    /\ \E key \in MetricKeys : Cardinality(RefItems(key)) >= 2
    /\ \E key \in MetricKeys : RefItems(key) = {}

\* every item of the four token metrics, with a token it may come from
TokenMetricKeys == MetricKeys \ {"multiword_overlap"}

ListedItems(key) ==
    Range(ret[1][key].overlapping) \cup Range(ret[1][key].ref_only)
        \cup Range(ret[1][key].target_only)

CallTokens == Range(nlp(call_ref).tokens) \cup Range(nlp(call_target).tokens)

Normalized(key, token) ==
    IF key \in {"lemma_overlap", "lemma_content_overlap"}
    THEN Lower(token.lemma_) ELSE Lower(token.text)

\* C5: no punctuation token contributes an item to total_overlap,
\* lemma_overlap, content_overlap or lemma_content_overlap, whatever its
\* part-of-speech tag: every listed item comes from a non-punctuation token.
C5_PunctuationExcluded ==
    Returned =>
        \A key \in TokenMetricKeys :
            \A item \in ListedItems(key) :
                \E token \in CallTokens :
                    ~token.is_punct /\ Normalized(key, token) = item

\* C6: a reference or target that is not a str makes the call signal
\* InvalidInputError before anything is annotated, with no report; two strs
\* never signal it.
C6_InvalidInputError ==
    pc = "done" =>
        /\ (~IsStr(call_ref) \/ ~IsStr(call_target)) =>
               /\ raised = "InvalidInputError"
               /\ nlp_calls = <<>>
               /\ ret = <<>>
        /\ (IsStr(call_ref) /\ IsStr(call_target)) => raised # "InvalidInputError"

\* one side of the call is the empty text
EmptySide(mine, other, key) ==
    /\ ret[1][key].score = Zero
    /\ ret[1][key].overlapping = <<>>
    /\ ret[1][key][mine] = <<>>
    /\ Range(ret[1][key][other]) =
           (IF other = "target_only" THEN TargetItems(key) ELSE RefItems(key))
    /\ Len(ret[1][key][other]) = Cardinality(Range(ret[1][key][other]))

\* C7: with an empty reference the call returns all five results, each with
\* score 0, overlapping and ref_only empty and target_only the whole target
\* item-set; likewise for an empty target; two empty texts give empty lists.
C7_EmptyText ==
    (pc = "done" /\ IsStr(call_ref) /\ IsStr(call_target)
        /\ (call_ref = EmptyText \/ call_target = EmptyText)) =>
        /\ raised = ""
        /\ ret # <<>>
        /\ DOMAIN ret[1] = MetricKeys
        /\ \A key \in MetricKeys :
               /\ (call_ref = EmptyText) => EmptySide("ref_only", "target_only", key)
               /\ (call_target = EmptyText) => EmptySide("target_only", "ref_only", key)

\* an empty reference against a target with token items and a noun chunk
C7_Witness ==
    /\ Returned
    /\ call_ref = EmptyText
    /\ \A key \in MetricKeys : ret[1][key].target_only # <<>>

\* s and t are the same up to letter case
Upper(c) == IF c >= 97 /\ c <= 122 THEN c - 32 ELSE c

SameUpToCase(s, t) ==
    /\ Len(s) = Len(t)
    /\ \A i \in DOMAIN s : Upper(s[i]) = Upper(t[i])

Surfaces(text) == {token.text : token \in {x \in Range(nlp(text).tokens) : ~x.is_punct}}

\* C8: two texts whose non-punctuation surface forms are the same up to case,
\* and not absent, score 1 on total_overlap with nothing on either side only;
\* no item of any list of any metric holds an upper-case letter.
C8_Lowercase ==
    Returned =>
        /\ ( /\ Surfaces(call_ref) # {}
             /\ \A s \in Surfaces(call_ref) :
                    \E t \in Surfaces(call_target) : SameUpToCase(s, t)
             /\ \A t \in Surfaces(call_target) :
                    \E s \in Surfaces(call_ref) : SameUpToCase(s, t) ) =>
               /\ ret[1]["total_overlap"].score = One
               /\ ret[1]["total_overlap"].ref_only = <<>>
               /\ ret[1]["total_overlap"].target_only = <<>>
        /\ \A key \in MetricKeys :
               \A item \in ListedItems(key) :
                   \A i \in DOMAIN item : ~(item[i] >= 65 /\ item[i] <= 90)

\* the same words in different case on the two sides, and a chunk with a capital
C8_Witness ==
    /\ Returned
    /\ Surfaces(call_ref) # {}
    /\ Surfaces(call_ref) \cap Surfaces(call_target) = {}
    /\ ret[1]["total_overlap"].score = One
    /\ ret[1]["multiword_overlap"].overlapping # <<>>

StrictlyAscending(list) ==
    \A i \in 1..(Len(list) - 1) : StrLess(list[i], list[i + 1])

\* C9: each result list is in strictly ascending lexicographic order, so holds
\* no item twice, and holds exactly R \cap T, R \ T and T \ R.
C9_Sorted ==
    Returned =>
        \A key \in MetricKeys :
            /\ StrictlyAscending(ret[1][key].overlapping)
            /\ StrictlyAscending(ret[1][key].ref_only)
            /\ StrictlyAscending(ret[1][key].target_only)
            /\ LET R == RefItems(key)
                   T == TargetItems(key)
               IN  /\ Range(ret[1][key].overlapping) = R \cap T
                   /\ Range(ret[1][key].ref_only) = R \ T
                   /\ Range(ret[1][key].target_only) = T \ R

\* a list of two items whose words stand in the other order in the text, and
\* a text whose two noun chunks read the same
C9_Witness ==
    /\ Returned
    /\ Len(ret[1]["total_overlap"].ref_only) = 2
    /\ StrLess(Lower(Lexicon[call_ref.words[2]].text), Lower(Lexicon[call_ref.words[1]].text))
    /\ Len(call_target.nps) = 2
    /\ Len(ret[1]["multiword_overlap"].target_only) = 1

----------------------------------------------------------------------------
(* Claims about the script, under Spec *)

Stored(ss) == [k \in DOMAIN ss \cap {"results", "reference", "target"} |-> ss[k]]

\* C10: whenever results are stored, reference and target are stored too, both
\* non-empty, results is the analysis of that pair and the page and the CSV
\* export show it; Analyze Overlap with an empty text box only warns and
\* leaves what is stored as it was.
C10_StoredPair ==
    /\ [](("results" \in DOMAIN session_state) =>
            /\ "reference" \in DOMAIN session_state
            /\ "target" \in DOMAIN session_state
            /\ Truthy(session_state["reference"])
            /\ Truthy(session_state["target"])
            /\ <<session_state["results"]>> =
                   calculate_overlaps_detailed(session_state["reference"],
                                               session_state["target"]).ret
            /\ page.shown = <<session_state["results"]>>
            /\ page.csv = << [ reference_text |-> session_state["reference"],
                               target_text    |-> session_state["target"],
                               rows           |-> session_state["results"] ] >>)
    /\ [][ ( /\ event' = "analyze"
             /\ ( ~Truthy(session_state["reference_input"])
                  \/ ~Truthy(session_state["target_input"]) ) ) =>
           ( /\ page'.warning
             /\ Stored(session_state') = Stored(session_state) ) ]_vars

\* results are on the page for a pair that is no longer in the text boxes,
\* and Analyze Overlap has just been pressed with an empty box
C10_Witness ==
    /\ "results" \in DOMAIN session_state
    /\ event = "analyze"
    /\ page.warning
    /\ ~Truthy(session_state["reference_input"])
    /\ session_state["target_input"] # session_state["target"]

====
